---- MODULE Spec2Model ----
(***************************************************************************)
(* Clip extraction and batch export pipeline of clip-and-label.           *)
(*                                                                         *)
(*   VideoProcessor (lib/videoProcessor.ts): load, processAnnotation,      *)
(*     processMultipleAnnotations, terminate, and the module-level         *)
(*     singleton videoProcessor.                                           *)
(*   ExportManager (components/ExportManager.tsx): exportAll,              *)
(*     processVideos, uploadToDrive.                                       *)
(*                                                                         *)
(* JavaScript runs to completion between two awaits, so every action below *)
(* is the code executed when one awaited promise settles, up to the next   *)
(* await.  The FFmpeg object is an external engine: each of its calls is   *)
(* a promise that resolves or rejects, and the model takes both outcomes.  *)
(* Numbers that are fractions in the code (scale factors, scaled crop      *)
(* coordinates, percentages) are exact rationals <<numerator, denominator>>*)
(***************************************************************************)
EXTENDS Integers, Sequences, FiniteSets, TLC

VARIABLES
    annotations,     \* ExportManager prop: the caller-owned annotation list
    resolutionInfo,  \* ExportManager prop: video and canvas resolution
    driveFolderId,   \* ExportManager prop: TRUE iff a Drive folder id is set
    token,           \* localStorage 'gdrive_token': "absent", "valid", "rejected"
    isLoaded,        \* VideoProcessor.isLoaded
    engine,          \* the FFmpeg object: [loaded, loading, loads, listeners]
    fs,              \* the engine's working storage: file name -> content
    pa,              \* per caller: the processAnnotation call in progress
    execLog,         \* history: the argument lists handed to ffmpeg.exec
    ui,              \* the export run: position in exportAll / processVideos
    batch,           \* processMultipleAnnotations locals: i, results, input
    progressLog,     \* history: the onProgress callbacks of the batch
    toasts,          \* history: the toasts shown by ExportManager
    uploadLog,       \* history: the upload requests issued and their outcome
    delivered,       \* history: file names handed to the local download
    direct,          \* the second client of the singleton: calls made, position, last method
    mapIn,           \* input of the crop mapping studied on its own
    mapOut,          \* its result
    tool,            \* VideoAnnotationTool state: video, annotations, dialog
    excel            \* ExcelUploader: the sheet rows and what parseExcelData returned

vars == <<annotations, resolutionInfo, driveFolderId, token, isLoaded, engine,
          fs, pa, execLog, ui, batch, progressLog, toasts, uploadLog,
          delivered, direct, mapIn, mapOut, tool, excel>>

(***************************************************************************)
(* Bounds                                                                  *)
(***************************************************************************)
MaxBatch == 3
MaxDirectCalls == 1
MaxRuns == 2
\* annotations added in one session of the tool
MaxAdds == 3
\* times explored on the timeline: -MaxSeconds .. MaxSeconds
MaxSeconds == 5
\* the duration of the loaded video, in seconds
VideoDuration == 10

(***************************************************************************)
(* Program constants                                                       *)
(***************************************************************************)
minSize == 32
MaxDuration == 3600

Callers == {"ui", "direct"}
FileNames == {"input.mp4", "output.mp4"}

Max(a, b) == IF a >= b THEN a ELSE b
Min(a, b) == IF a <= b THEN a ELSE b

(***************************************************************************)
(* Rationals                                                               *)
(***************************************************************************)
Rat(n) == <<n, 1>>
\* q * (a / b), as in cropArea.x * scaleX with scaleX = a / b
RatScale(q, a, b) == <<q[1] * a, q[2] * b>>

\* mutant: Math.floor(q / 2) * 2, the fraction is cut off
RoundEven_Floor(q) == 2 * (q[1] \div (2 * q[2]))

\* Math.round(q / 2) * 2 ; Math.round rounds halves towards +infinity
RoundEven(q) == 2 * ((q[1] + q[2]) \div (2 * q[2]))

(***************************************************************************)
(* Values                                                                  *)
(***************************************************************************)
NoAnnotation ==
    [filename |-> "", timeRange |-> [start |-> 0, end |-> 0],
     cropArea |-> [x |-> Rat(0), y |-> Rat(0), width |-> Rat(0), height |-> Rat(0)]]

NoResolution == [width |-> 0, height |-> 0]

Pending == [kind |-> "pending", msg |-> <<>>, data |-> ""]
Blob(data) == [kind |-> "blob", msg |-> <<>>, data |-> data]
Thrown(msg) == [kind |-> "error", msg |-> msg, data |-> ""]

\* new Error(`FFmpeg initialization failed: ${error.message}`)
InitError(cause) == <<"FFmpeg initialization failed: ", cause>>

\* mutant: the wrapped error drops the message of the error it caught
ProcessingError_Unknown(cause) == <<"Video processing failed: ", "Unknown error">>

\* new Error(`Video processing failed: ${error.message || 'Unknown error'}`)
ProcessingError(cause) == <<"Video processing failed: ", cause>>

IdleCall ==
    [pc |-> "idle", ann |-> NoAnnotation, canvas |-> NoResolution,
     video |-> NoResolution, res |-> Pending, kill |-> FALSE, loadOnly |-> FALSE]

(***************************************************************************)
(* processAnnotation: validation and crop mapping                          *)
(***************************************************************************)
\* !videoResolution || !canvasResolution || !canvasResolution.width || !canvasResolution.height
\* (both arguments are always objects here, so only the canvas sides decide)
ResolutionMissing(canvasResolution, videoResolution) ==
    canvasResolution.width = 0 \/ canvasResolution.height = 0

Duration(timeRange) == timeRange.end - timeRange.start

\* mutant: the bound excludes the full hour
DurationInvalid_Exclusive(duration) == duration <= 0 \/ duration >= MaxDuration

\* duration <= 0 || duration > 3600
DurationInvalid(duration) == duration <= 0 \/ duration > MaxDuration

\* the crop handed to the filter: crop=finalCropW:finalCropH:cropX:cropY
CropMapping(cropArea, canvasResolution, videoResolution) ==
    LET preciseX == RatScale(cropArea.x, videoResolution.width, canvasResolution.width)
        preciseY == RatScale(cropArea.y, videoResolution.height, canvasResolution.height)
        preciseW == RatScale(cropArea.width, videoResolution.width, canvasResolution.width)
        preciseH == RatScale(cropArea.height, videoResolution.height, canvasResolution.height)
        cropX == Max(0, RoundEven(preciseX))
        cropY == Max(0, RoundEven(preciseY))
        cropW == Max(minSize, RoundEven(preciseW))
        cropH == Max(minSize, RoundEven(preciseH))
        finalCropW == Min(cropW, videoResolution.width - cropX)
        finalCropH == Min(cropH, videoResolution.height - cropY)
    IN  [x |-> cropX, y |-> cropY, width |-> finalCropW, height |-> finalCropH]

\* the argument list of the ffmpeg.exec issued by caller c
ExecArgs(c, call) ==
    [filename |-> call.ann.filename,
     ss |-> call.ann.timeRange.start, t |-> Duration(call.ann.timeRange),
     crop |-> CropMapping(call.ann.cropArea, call.canvas, call.video)]

(***************************************************************************)
(* VideoProcessor.load                                                     *)
(***************************************************************************)
\* load() past its guard: ffmpeg.on('log'), ffmpeg.on('progress') and then
\* ffmpeg.load(...) is issued
LoadEntered(e) ==
    [e EXCEPT !.loading = @ + 1, !.loads = @ + 1, !.listeners = @ + 2]

\* mutant: a processor whose load failed refuses later calls instead of loading again
PACall_NoRetry(c, ann, canvas, video) ==
    /\ pa' = [pa EXCEPT ![c] =
                IF isLoaded
                THEN [IdleCall EXCEPT !.pc = "write", !.ann = ann,
                                      !.canvas = canvas, !.video = video]
                ELSE IF engine.loads = 0
                THEN [IdleCall EXCEPT !.pc = "load", !.ann = ann,
                                      !.canvas = canvas, !.video = video]
                ELSE [IdleCall EXCEPT !.pc = "ret", !.ann = ann,
                                      !.canvas = canvas, !.video = video,
                                      !.res = Thrown(InitError("load fault"))]]
    /\ engine' = IF isLoaded \/ engine.loads > 0 THEN engine ELSE LoadEntered(engine)

\* processAnnotation(...) is entered by caller c: runs to its first await.
\* With isLoaded false that await is load(), which reaches ffmpeg.load.
PACall(c, ann, canvas, video) ==
    /\ pa' = [pa EXCEPT ![c] =
                [IdleCall EXCEPT !.pc = IF isLoaded THEN "write" ELSE "load",
                                 !.ann = ann, !.canvas = canvas, !.video = video]]
    /\ engine' = IF isLoaded THEN engine
                 ELSE LoadEntered(engine)

\* mutant: a resolved ffmpeg.load is not recorded in isLoaded
LoadDone_Forgetful(c) ==
    /\ pa[c].pc = "load"
    /\ \/ /\ ~pa[c].kill
          /\ engine' = [engine EXCEPT !.loaded = TRUE, !.loading = @ - 1]
          /\ isLoaded' = isLoaded
          /\ pa' = [pa EXCEPT ![c].pc = IF pa[c].loadOnly THEN "ret" ELSE "write"]
       \/ /\ engine' = [engine EXCEPT !.loading = @ - 1]
          /\ isLoaded' = FALSE
          /\ pa' = [pa EXCEPT ![c].pc = "ret", ![c].kill = FALSE,
                              ![c].res = Thrown(InitError("load fault"))]
    /\ UNCHANGED <<annotations, resolutionInfo, driveFolderId, token, fs, execLog,
                   ui, batch, progressLog, toasts, uploadLog, delivered, direct,
                   mapIn, mapOut, tool, excel>>

\* the ffmpeg.load of caller c settles
LoadDone(c) ==
    /\ pa[c].pc = "load"
    /\ \/ /\ ~pa[c].kill
          /\ engine' = [engine EXCEPT !.loaded = TRUE, !.loading = @ - 1]
          /\ isLoaded' = TRUE
          /\ pa' = [pa EXCEPT ![c].pc = IF pa[c].loadOnly THEN "ret" ELSE "write"]
       \/ /\ engine' = [engine EXCEPT !.loading = @ - 1]
          /\ isLoaded' = FALSE
          /\ pa' = [pa EXCEPT ![c].pc = "ret", ![c].kill = FALSE,
                              ![c].res = Thrown(InitError("load fault"))]
    /\ UNCHANGED <<annotations, resolutionInfo, driveFolderId, token, fs, execLog,
                   ui, batch, progressLog, toasts, uploadLog, delivered, direct,
                   mapIn, mapOut, tool, excel>>

(***************************************************************************)
(* VideoProcessor.processAnnotation                                        *)
(***************************************************************************)
\* catch: rethrow wrapped; finally: deleteFile('input.mp4') is issued
Fail(c, cause) ==
    [pa EXCEPT ![c].pc = "delIn", ![c].kill = FALSE,
               ![c].res = Thrown(ProcessingError(cause))]

EngineUp(c) == engine.loaded /\ ~pa[c].kill

\* writeFile('input.mp4', ...) settles; on success the resolution check, the
\* mapping and the duration check run and ffmpeg.exec is issued
WriteDone(c) ==
    /\ pa[c].pc = "write"
    /\ \/ /\ EngineUp(c)
          /\ fs' = [fs EXCEPT !["input.mp4"] = "data"]
          /\ IF ResolutionMissing(pa[c].canvas, pa[c].video)
             THEN pa' = Fail(c, "Missing resolution info") /\ UNCHANGED execLog
             ELSE IF DurationInvalid(Duration(pa[c].ann.timeRange))
             THEN pa' = Fail(c, "Invalid duration") /\ UNCHANGED execLog
             ELSE /\ pa' = [pa EXCEPT ![c].pc = "exec"]
                  /\ execLog' = [execLog EXCEPT ![c] = Append(@, ExecArgs(c, pa[c]))]
       \/ /\ pa' = Fail(c, "engine fault")
          /\ UNCHANGED <<fs, execLog>>
    /\ UNCHANGED <<annotations, resolutionInfo, driveFolderId, token, isLoaded,
                   engine, ui, batch, progressLog, toasts, uploadLog, delivered,
                   direct, mapIn, mapOut, tool, excel>>

\* ffmpeg.exec settles: it resolves whether or not it produced output.mp4
\* (it leaves the output alone when it cannot open the input); listDir is issued
ExecDone(c) ==
    /\ pa[c].pc = "exec"
    /\ \/ /\ EngineUp(c)
          /\ \E out \in (IF fs["input.mp4"] = "none" THEN {fs["output.mp4"]}
                         ELSE {pa[c].ann.filename, "empty", fs["output.mp4"]}) :
                fs' = [fs EXCEPT !["output.mp4"] = out]
          /\ pa' = [pa EXCEPT ![c].pc = "list"]
       \/ /\ pa' = Fail(c, "engine fault")
          /\ UNCHANGED fs
    /\ UNCHANGED <<annotations, resolutionInfo, driveFolderId, token, isLoaded,
                   engine, execLog, ui, batch, progressLog, toasts, uploadLog,
                   delivered, direct, mapIn, mapOut, tool, excel>>

\* mutant: readFile is issued without looking at the listing
ListDone_Unchecked(c) ==
    /\ pa[c].pc = "list"
    /\ \/ /\ EngineUp(c)
          /\ pa' = [pa EXCEPT ![c].pc = "read"]
       \/ pa' = Fail(c, "engine fault")
    /\ UNCHANGED <<annotations, resolutionInfo, driveFolderId, token, isLoaded,
                   engine, fs, execLog, ui, batch, progressLog, toasts, uploadLog,
                   delivered, direct, mapIn, mapOut, tool, excel>>

\* listDir('/') settles; if output.mp4 is listed, readFile is issued
ListDone(c) ==
    /\ pa[c].pc = "list"
    /\ \/ /\ EngineUp(c)
          /\ pa' = IF fs["output.mp4"] = "none"
                   THEN Fail(c, "Output file was not created")
                   ELSE [pa EXCEPT ![c].pc = "read"]
       \/ pa' = Fail(c, "engine fault")
    /\ UNCHANGED <<annotations, resolutionInfo, driveFolderId, token, isLoaded,
                   engine, fs, execLog, ui, batch, progressLog, toasts, uploadLog,
                   delivered, direct, mapIn, mapOut, tool, excel>>

\* mutant: the bytes read are returned without looking at their length
ReadDone_Unchecked(c) ==
    /\ pa[c].pc = "read"
    /\ \/ /\ EngineUp(c)
          /\ fs["output.mp4"] # "none"
          /\ pa' = [pa EXCEPT ![c].pc = "delIn", ![c].res = Blob(fs["output.mp4"])]
       \/ pa' = Fail(c, "engine fault")
    /\ UNCHANGED <<annotations, resolutionInfo, driveFolderId, token, isLoaded,
                   engine, fs, execLog, ui, batch, progressLog, toasts, uploadLog,
                   delivered, direct, mapIn, mapOut, tool, excel>>

\* readFile('output.mp4') settles; return new Blob([data]) runs the finally
ReadDone(c) ==
    /\ pa[c].pc = "read"
    /\ \/ /\ EngineUp(c)
          /\ fs["output.mp4"] # "none"
          /\ pa' = IF fs["output.mp4"] = "empty"
                   THEN Fail(c, "Output file is empty")
                   ELSE [pa EXCEPT ![c].pc = "delIn",
                                   ![c].res = Blob(fs["output.mp4"])]
       \/ pa' = Fail(c, "engine fault")
    /\ UNCHANGED <<annotations, resolutionInfo, driveFolderId, token, isLoaded,
                   engine, fs, execLog, ui, batch, progressLog, toasts, uploadLog,
                   delivered, direct, mapIn, mapOut, tool, excel>>

\* finally: deleteFile('input.mp4') settles.  Both deletes sit in one try
\* block: a rejection of the first is logged and the second is not issued.
DeleteInputDone(c) ==
    /\ pa[c].pc = "delIn"
    /\ \/ /\ EngineUp(c)
          /\ fs["input.mp4"] # "none"
          /\ fs' = [fs EXCEPT !["input.mp4"] = "none"]
          /\ pa' = [pa EXCEPT ![c].pc = "delOut"]
       \/ /\ pa' = [pa EXCEPT ![c].pc = "ret", ![c].kill = FALSE]
          /\ UNCHANGED fs
    /\ UNCHANGED <<annotations, resolutionInfo, driveFolderId, token, isLoaded,
                   engine, execLog, ui, batch, progressLog, toasts, uploadLog,
                   delivered, direct, mapIn, mapOut, tool, excel>>

\* finally: deleteFile('output.mp4') settles; the call returns or throws
DeleteOutputDone(c) ==
    /\ pa[c].pc = "delOut"
    /\ \/ /\ EngineUp(c)
          /\ fs["output.mp4"] # "none"
          /\ fs' = [fs EXCEPT !["output.mp4"] = "none"]
          /\ pa' = [pa EXCEPT ![c].pc = "ret"]
       \/ /\ pa' = [pa EXCEPT ![c].pc = "ret", ![c].kill = FALSE]
          /\ UNCHANGED fs
    /\ UNCHANGED <<annotations, resolutionInfo, driveFolderId, token, isLoaded,
                   engine, execLog, ui, batch, progressLog, toasts, uploadLog,
                   delivered, direct, mapIn, mapOut, tool, excel>>

(***************************************************************************)
(* VideoProcessor.terminate, called by the second client                   *)
(***************************************************************************)
\* ffmpeg.terminate(): the worker is gone with its storage, and every call
\* still awaited on it rejects
KillAwaited(c) ==
    [pa EXCEPT ![c].kill = pa[c].pc \notin {"idle", "ret"}]

(***************************************************************************)
(* VideoProcessor.processMultipleAnnotations and ExportManager             *)
(***************************************************************************)
Toast(title, description) == [title |-> title, description |-> description]

CanvasOf(info) == [width |-> info.canvasWidth, height |-> info.canvasHeight]
VideoOf(info) == [width |-> info.videoWidth, height |-> info.videoHeight]

\* processVideos: scaledAnnotations = annotations.map(...)
ScaleAnnotation(annotation, info) ==
    [annotation EXCEPT !.cropArea =
        [x |-> RatScale(Rat(annotation.cropArea.x), info.videoWidth, info.canvasWidth),
         y |-> RatScale(Rat(annotation.cropArea.y), info.videoHeight, info.canvasHeight),
         width |-> RatScale(Rat(annotation.cropArea.width), info.videoWidth, info.canvasWidth),
         height |-> RatScale(Rat(annotation.cropArea.height), info.videoHeight, info.canvasHeight)]]

ScaledAnnotations(list, info) ==
    [k \in 1..Len(list) |-> ScaleAnnotation(list[k], info)]

\* mutant: a new crop x is written into the caller's annotation objects
AnnotationsAfterMap_InPlace(list, info) ==
    [k \in 1..Len(list) |->
        [list[k] EXCEPT !.cropArea.x = @ * info.videoWidth + 1]]

\* the caller's array after annotations.map(a => ({ ...a, cropArea: {...} })):
\* map builds a new array and the spread a new object for every element
AnnotationsAfterMap(list, info) == list

\* mutant: the fraction reported before item i counts item i as done
ProgressEvent_After(i, n) == [progress |-> <<100 * (i + 1), n>>, currentIndex |-> i]

\* onProgress((i / annotations.length) * 100, i) and the callback of processVideos
ProgressEvent(i, n) == [progress |-> <<100 * i, n>>, currentIndex |-> i]
ProcessingToast(i, n) ==
    Toast(<<"Processing clip ", ToString(i + 1), "/", ToString(n), "...">>, <<>>)

\* one pass of the for loop up to its await: item i (0-based) is started
StartItem(i, results, input, ts, run, log) ==
    /\ batch' = [i |-> i, results |-> results, input |-> input]
    /\ progressLog' = Append(log, ProgressEvent(i, Len(input)))
    /\ toasts' = Append(ts, ProcessingToast(i, Len(annotations)))
    /\ ui' = [run EXCEPT !.pc = "batch", !.isExporting = TRUE,
                         !.exportProgress = <<100 * i, Len(input)>>]
    /\ PACall("ui", input[i + 1], CanvasOf(resolutionInfo), VideoOf(resolutionInfo))

\* processVideos leaves through its finally and exportAll shows its last toast
EndRun(ts, results, error) ==
    /\ toasts' = Append(ts, Toast(<<"Export completed successfully!">>, <<>>))
    /\ ui' = [ui EXCEPT !.pc = "done", !.isExporting = FALSE,
                        !.exportProgress = Rat(0), !.results = results,
                        !.error = error]

\* exportAll, from the click to the first await inside processMultipleAnnotations
ExportAll ==
    /\ ui.pc \in {"idle", "done"}
    /\ ui.runs < MaxRuns
    /\ ~ui.isExporting
    /\ Len(annotations) > 0
    /\ StartItem(0, <<>>, ScaledAnnotations(annotations, resolutionInfo),
                 <<Toast(<<"Excel file downloaded successfully!">>, <<>>),
                   Toast(<<"Initializing FFmpeg...">>,
                         <<"This may take a moment on first use">>)>>,
                 [ui EXCEPT !.runs = @ + 1, !.results = <<>>, !.error = <<>>, !.j = 0],
                 <<>>)
    /\ annotations' = AnnotationsAfterMap(annotations, resolutionInfo)
    /\ execLog' = [execLog EXCEPT !["ui"] = <<>>]
    /\ uploadLog' = <<>>
    /\ delivered' = <<>>
    /\ UNCHANGED <<resolutionInfo, driveFolderId, token, isLoaded,
                   fs, direct, mapIn, mapOut, tool, excel>>

\* mutant: the result is put in front of the earlier ones
Pushed_Front(results, call) ==
    <<[filename |-> call.ann.filename, blob |-> call.res.data]>> \o results

\* results.push({ filename: annotation.filename, blob })
Pushed(results, call) ==
    Append(results, [filename |-> call.ann.filename, blob |-> call.res.data])

\* the awaited processAnnotation returned a blob and items remain
ItemDone ==
    /\ ui.pc = "batch"
    /\ pa["ui"].pc = "ret"
    /\ pa["ui"].res.kind = "blob"
    /\ batch.i + 1 < Len(batch.input)
    /\ StartItem(batch.i + 1, Pushed(batch.results, pa["ui"]), batch.input, toasts,
                 ui, progressLog)
    /\ UNCHANGED <<annotations, resolutionInfo, driveFolderId, token, isLoaded,
                   fs, execLog, uploadLog, delivered, direct, mapIn, mapOut, tool, excel>>

\* mutant: the loop catches the error of an item and goes on with the next
ItemFailed_Continue ==
    /\ ui.pc = "batch"
    /\ pa["ui"].pc = "ret"
    /\ pa["ui"].res.kind = "error"
    /\ IF batch.i + 1 < Len(batch.input)
       THEN StartItem(batch.i + 1, batch.results, batch.input, toasts, ui, progressLog)
       ELSE /\ EndRun(Append(toasts, Toast(<<"Video processing failed">>, pa["ui"].res.msg)),
                      ui.results, pa["ui"].res.msg)
            /\ pa' = [pa EXCEPT !["ui"] = IdleCall]
            /\ UNCHANGED <<engine, batch, progressLog>>
    /\ UNCHANGED <<annotations, resolutionInfo, driveFolderId, token, isLoaded,
                   fs, execLog, uploadLog, delivered, direct, mapIn, mapOut, tool, excel>>

\* mutant: the results collected before the failure are handed over and saved
ItemFailed_Partial ==
    /\ ui.pc = "batch"
    /\ pa["ui"].pc = "ret"
    /\ pa["ui"].res.kind = "error"
    /\ EndRun(Append(toasts, Toast(<<"Video processing failed">>, pa["ui"].res.msg)),
              batch.results, pa["ui"].res.msg)
    /\ delivered' = [k \in DOMAIN batch.results |-> batch.results[k].filename]
    /\ pa' = [pa EXCEPT !["ui"] = IdleCall]
    /\ UNCHANGED <<annotations, resolutionInfo, driveFolderId, token, isLoaded,
                   engine, fs, execLog, batch, progressLog, uploadLog, direct,
                   mapIn, mapOut, tool, excel>>

\* the awaited processAnnotation threw: the exception leaves the loop and
\* processMultipleAnnotations, and is caught by processVideos
ItemFailed ==
    /\ ui.pc = "batch"
    /\ pa["ui"].pc = "ret"
    /\ pa["ui"].res.kind = "error"
    /\ EndRun(Append(toasts, Toast(<<"Video processing failed">>, pa["ui"].res.msg)),
              ui.results, pa["ui"].res.msg)
    /\ pa' = [pa EXCEPT !["ui"] = IdleCall]
    /\ UNCHANGED <<annotations, resolutionInfo, driveFolderId, token, isLoaded,
                   engine, fs, execLog, batch, progressLog, uploadLog, delivered,
                   direct, mapIn, mapOut, tool, excel>>

(***************************************************************************)
(* ExportManager: delivery                                                 *)
(***************************************************************************)
ExportedToast(n) ==
    IF driveFolderId
    THEN Toast(<<"Successfully exported ", ToString(n), " video clips to Google Drive!">>,
               <<"Uploaded to: ", "folder">>)
    ELSE Toast(<<"Successfully exported ", ToString(n), " video clips!">>,
               <<"Check your downloads folder">>)

\* mutant: the stored token is not looked at
NotConnected_FolderOnly(tok, folder) == ~folder

\* uploadToDrive: if (!token || !driveFolderId) throw ...
NotConnected(tok, folder) == tok = "absent" \/ ~folder

\* the fetch(...) for results[j] (0-based) is issued
Request(results, j) ==
    [filename |-> results[j + 1].filename, blob |-> results[j + 1].blob,
     outcome |-> "pending"]

\* the last awaited processAnnotation returned a blob: the loop ends,
\* processMultipleAnnotations returns and processVideos starts the delivery
BatchDone ==
    /\ ui.pc = "batch"
    /\ pa["ui"].pc = "ret"
    /\ pa["ui"].res.kind = "blob"
    /\ batch.i + 1 = Len(batch.input)
    /\ LET results == Pushed(batch.results, pa["ui"])
           n == Len(results)
       IN  /\ batch' = [batch EXCEPT !.i = n, !.results = results]
           /\ progressLog' = Append(progressLog,
                                    [progress |-> Rat(100), currentIndex |-> n])
           /\ LET ts == Append(toasts, ProcessingToast(n, Len(annotations)))
              IN  IF driveFolderId
                  THEN IF NotConnected(token, driveFolderId)
                       THEN \* uploadToDrive throws before its loop
                            /\ EndRun(Append(ts, Toast(<<"Video processing failed">>,
                                                       <<"Google Drive not connected">>)),
                                      results, <<"Google Drive not connected">>)
                            /\ UNCHANGED <<uploadLog, delivered>>
                       ELSE /\ toasts' = Append(ts, Toast(<<"Uploading ", ToString(n),
                                                            " files to Google Drive...">>, <<>>))
                            /\ ui' = [ui EXCEPT !.pc = "upload", !.j = 0,
                                                !.results = results,
                                                !.exportProgress = Rat(100)]
                            /\ uploadLog' = Append(uploadLog, Request(results, 0))
                            /\ UNCHANGED delivered
                  ELSE /\ delivered' = Append(delivered, results[1].filename)
                       /\ UNCHANGED uploadLog
                       /\ IF n > 1
                          THEN /\ toasts' = ts
                               /\ ui' = [ui EXCEPT !.pc = "download", !.j = 1,
                                                   !.results = results,
                                                   !.exportProgress = Rat(100)]
                          ELSE EndRun(Append(ts, ExportedToast(n)), results, <<>>)
    /\ pa' = [pa EXCEPT !["ui"] = IdleCall]
    /\ UNCHANGED <<annotations, resolutionInfo, driveFolderId, token, isLoaded,
                   engine, fs, execLog, direct, mapIn, mapOut, tool, excel>>

\* the 500 ms pause between two downloads is over: results[j] is saved
DownloadNext ==
    /\ ui.pc = "download"
    /\ delivered' = Append(delivered, ui.results[ui.j + 1].filename)
    /\ IF ui.j < Len(ui.results) - 1
       THEN /\ ui' = [ui EXCEPT !.j = @ + 1]
            /\ UNCHANGED toasts
       ELSE EndRun(Append(toasts, ExportedToast(Len(ui.results))), ui.results, <<>>)
    /\ UNCHANGED <<annotations, resolutionInfo, driveFolderId, token, isLoaded,
                   engine, fs, pa, execLog, batch, progressLog, uploadLog, direct,
                   mapIn, mapOut, tool, excel>>

\* what the remote store answers to an upload: "ok" (2xx), "rejected"
\* (a response with ok false) or "error" (fetch throws)
Answers == IF token = "valid" THEN {"ok", "rejected", "error"} ELSE {"rejected", "error"}

\* the toast after the fetch for a result settled
UploadToast(j, n, filename, outcome) ==
    IF outcome = "ok"
    THEN Toast(<<"Uploaded ", ToString(j + 1), "/", ToString(n), ": ", filename>>, <<>>)
    ELSE Toast(<<"Failed to upload ", filename>>, <<"Continuing with remaining files...">>)

\* mutant: a failed upload leaves the loop
NextUpload_Break(j, outcome) == IF outcome = "ok" THEN j + 1 ELSE j + MaxBatch + 1

\* the index of the loop after the fetch for results[j] settled with outcome
NextUpload(j, outcome) == j + 1

\* the toast uploadToDrive shows after its loop
UploadedToast(n) ==
    Toast(<<"Successfully uploaded ", ToString(n), " files to ", "folder", "!">>, <<>>)

\* the fetch for results[ui.j] settles
UploadDone ==
    /\ ui.pc = "upload"
    /\ \E outcome \in Answers :
          LET n == Len(ui.results)
              next == NextUpload(ui.j, outcome)
              ts == Append(toasts, UploadToast(ui.j, n, ui.results[ui.j + 1].filename,
                                               outcome))
              log == [uploadLog EXCEPT ![Len(uploadLog)].outcome = outcome]
          IN  IF next < n
              THEN /\ uploadLog' = Append(log, Request(ui.results, next))
                   /\ toasts' = ts
                   /\ ui' = [ui EXCEPT !.j = next]
              ELSE /\ uploadLog' = log
                   /\ EndRun(Append(Append(ts, UploadedToast(n)), ExportedToast(n)),
                             ui.results, <<>>)
    /\ UNCHANGED <<annotations, resolutionInfo, driveFolderId, token, isLoaded,
                   engine, fs, pa, execLog, batch, progressLog, delivered, direct,
                   mapIn, mapOut, tool, excel>>

(***************************************************************************)
(* The second client of the exported singleton videoProcessor              *)
(***************************************************************************)
DirectAnnotation ==
    [filename |-> "direct.mp4", timeRange |-> [start |-> 0, end |-> 10],
     cropArea |-> [x |-> Rat(0), y |-> Rat(0), width |-> Rat(64), height |-> Rat(48)]]

\* videoProcessor.processAnnotation(...) is called
DirectProcess ==
    /\ direct.pc = "idle"
    /\ direct.calls < MaxDirectCalls
    /\ direct' = [calls |-> direct.calls + 1, pc |-> "process", op |-> "process"]
    /\ PACall("direct", DirectAnnotation, CanvasOf(resolutionInfo), VideoOf(resolutionInfo))
    /\ UNCHANGED <<annotations, resolutionInfo, driveFolderId, token, isLoaded,
                   fs, execLog, ui, batch, progressLog, toasts, uploadLog,
                   delivered, mapIn, mapOut, tool, excel>>

\* mutant: load() without its guard
DirectLoad_Always ==
    /\ direct.pc = "idle"
    /\ direct.calls < MaxDirectCalls
    /\ direct' = [calls |-> direct.calls + 1, pc |-> "process", op |-> "load"]
    /\ pa' = [pa EXCEPT !["direct"] =
                [IdleCall EXCEPT !.pc = "load", !.loadOnly = TRUE]]
    /\ engine' = LoadEntered(engine)
    /\ UNCHANGED <<annotations, resolutionInfo, driveFolderId, token, isLoaded,
                   fs, execLog, ui, batch, progressLog, toasts, uploadLog,
                   delivered, mapIn, mapOut, tool, excel>>

\* videoProcessor.load() is called: if (this.isLoaded) return
DirectLoad ==
    /\ direct.pc = "idle"
    /\ direct.calls < MaxDirectCalls
    /\ IF isLoaded
       THEN /\ direct' = [direct EXCEPT !.calls = @ + 1, !.op = "load"]
            /\ UNCHANGED <<pa, engine>>
       ELSE /\ direct' = [calls |-> direct.calls + 1, pc |-> "process", op |-> "load"]
            /\ pa' = [pa EXCEPT !["direct"] =
                        [IdleCall EXCEPT !.pc = "load", !.loadOnly = TRUE]]
            /\ engine' = LoadEntered(engine)
    /\ UNCHANGED <<annotations, resolutionInfo, driveFolderId, token, isLoaded,
                   fs, execLog, ui, batch, progressLog, toasts, uploadLog,
                   delivered, mapIn, mapOut, tool, excel>>

\* the awaited call of the second client settled
DirectReturn ==
    /\ direct.pc = "process"
    /\ pa["direct"].pc = "ret"
    /\ direct' = [direct EXCEPT !.pc = "idle"]
    /\ pa' = [pa EXCEPT !["direct"] = IdleCall]
    /\ UNCHANGED <<annotations, resolutionInfo, driveFolderId, token, isLoaded,
                   engine, fs, execLog, ui, batch, progressLog, toasts, uploadLog,
                   delivered, mapIn, mapOut, tool, excel>>

\* videoProcessor.terminate() is called: if (this.isLoaded) await ffmpeg.terminate()
DirectTerminate ==
    /\ direct.pc = "idle"
    /\ direct.calls < MaxDirectCalls
    /\ IF isLoaded
       THEN /\ direct' = [calls |-> direct.calls + 1, pc |-> "terminate", op |-> "terminate"]
            /\ engine' = [engine EXCEPT !.loaded = FALSE]
            /\ fs' = [f \in FileNames |-> "none"]
            /\ pa' = [c \in Callers |-> KillAwaited(c)[c]]
       ELSE /\ direct' = [direct EXCEPT !.calls = @ + 1, !.op = "terminate"]
            /\ UNCHANGED <<engine, fs, pa>>
    /\ UNCHANGED <<annotations, resolutionInfo, driveFolderId, token, isLoaded,
                   execLog, ui, batch, progressLog, toasts, uploadLog, delivered,
                   mapIn, mapOut, tool, excel>>

\* the awaited ffmpeg.terminate() settled: this.isLoaded = false
DirectTerminateDone ==
    /\ direct.pc = "terminate"
    /\ isLoaded' = FALSE
    /\ direct' = [direct EXCEPT !.pc = "idle"]
    /\ UNCHANGED <<annotations, resolutionInfo, driveFolderId, token, engine, fs,
                   pa, execLog, ui, batch, progressLog, toasts, uploadLog,
                   delivered, mapIn, mapOut, tool, excel>>

(***************************************************************************)
(* VideoAnnotationTool: choosing the video file                            *)
(***************************************************************************)
\* 500 * 1024 * 1024 bytes
MaxFileSize == 524288000

\* strings that the code inspects are sequences of characters
VideoPrefix == <<"v", "i", "d", "e", "o", "/">>

\* String.prototype.startsWith
StartsWith(str, prefix) ==
    /\ Len(str) >= Len(prefix)
    /\ SubSeq(str, 1, Len(prefix)) = prefix

NoFile == [present |-> FALSE, name |-> "", type |-> <<>>, size |-> 0]

\* useState initial values of VideoAnnotationTool
NoTool ==
    [videoFile |-> NoFile, videoUrl |-> "", annotations |-> <<>>,
     pendingFile |-> NoFile, showConfirmDialog |-> FALSE, isUploading |-> FALSE,
     toast |-> "", selected |-> NoFile,
     timeRange |-> [start |-> 0, end |-> 5], currentLabel |-> "",
     selectedAnnotation |-> 0, now |-> 0]

\* mutant: a file of exactly the limit is refused
TooLarge_Inclusive(size) == size >= MaxFileSize

\* file.size > 500 * 1024 * 1024
TooLarge(size) == size > MaxFileSize

\* URL.createObjectURL(file)
ObjectUrl(file) == "blob:" \o file.name

\* loadNewVideo(file): the state after its setters; created is FALSE when
\* URL.createObjectURL threw and the catch block ran
LoadNewVideo(state, file, created) ==
    IF created
    THEN [state EXCEPT !.videoFile = file, !.videoUrl = ObjectUrl(file),
                       !.timeRange = [start |-> 0, end |-> 5],
                       !.annotations = <<>>, !.currentLabel = "",
                       !.selectedAnnotation = 0, !.isUploading = FALSE,
                       !.toast = "Video loaded successfully!"]
    ELSE [state EXCEPT !.isUploading = FALSE, !.toast = "Failed to load video"]

\* handleFileUpload: the change event of the file input, with the file chosen
\* (NoFile when the selection is empty)
HandleFileUpload(file) ==
    /\ ~tool.showConfirmDialog
    /\ LET chosen == [tool EXCEPT !.selected = file] IN
       IF ~file.present
       THEN tool' = chosen
       ELSE IF ~StartsWith(file.type, VideoPrefix)
       THEN tool' = [chosen EXCEPT !.toast = "Please select a valid video file"]
       ELSE IF TooLarge(file.size)
       THEN tool' = [chosen EXCEPT !.toast = "File too large"]
       ELSE IF Len(tool.annotations) > 0
       THEN tool' = [chosen EXCEPT !.pendingFile = file, !.showConfirmDialog = TRUE]
       ELSE \E created \in BOOLEAN : tool' = LoadNewVideo(chosen, file, created)
    /\ UNCHANGED <<annotations, resolutionInfo, driveFolderId, token, isLoaded,
                   engine, fs, pa, execLog, ui, batch, progressLog, toasts,
                   uploadLog, delivered, direct, mapIn, mapOut, excel>>

\* handleConfirmNewVideo: the dialog's action button
HandleConfirmNewVideo ==
    /\ tool.showConfirmDialog
    /\ IF tool.pendingFile.present
       THEN \E created \in BOOLEAN :
               tool' = [LoadNewVideo(tool, tool.pendingFile, created)
                           EXCEPT !.pendingFile = NoFile, !.showConfirmDialog = FALSE]
       ELSE tool' = [tool EXCEPT !.showConfirmDialog = FALSE]
    /\ UNCHANGED <<annotations, resolutionInfo, driveFolderId, token, isLoaded,
                   engine, fs, pa, execLog, ui, batch, progressLog, toasts,
                   uploadLog, delivered, direct, mapIn, mapOut, excel>>

\* handleCancelNewVideo: the dialog's cancel button
HandleCancelNewVideo ==
    /\ tool.showConfirmDialog
    /\ tool' = [tool EXCEPT !.pendingFile = NoFile, !.showConfirmDialog = FALSE]
    /\ UNCHANGED <<annotations, resolutionInfo, driveFolderId, token, isLoaded,
                   engine, fs, pa, execLog, ui, batch, progressLog, toasts,
                   uploadLog, delivered, direct, mapIn, mapOut, excel>>

\* onOpenChange={setShowConfirmDialog}: the dialog is dismissed (Escape)
DismissConfirmDialog ==
    /\ tool.showConfirmDialog
    /\ tool' = [tool EXCEPT !.showConfirmDialog = FALSE]
    /\ UNCHANGED <<annotations, resolutionInfo, driveFolderId, token, isLoaded,
                   engine, fs, pa, execLog, ui, batch, progressLog, toasts,
                   uploadLog, delivered, direct, mapIn, mapOut, excel>>

(***************************************************************************)
(* VideoAnnotationTool and Timeline: the time range and the annotations    *)
(***************************************************************************)
\* Times are whole seconds in this model: the sliders are moved to whole
\* seconds and the H:M:S fields hold integers.  On whole seconds
\* `t < end - 0.1` is `t < end` and `t > start + 0.1` is `t > start`.

\* generateFilename(label, index) with startIndex 0, for the k-th annotation
\* added: `VTV${(startIndex + index).toString().padStart(4, '0')}.mp4`
FilenameOf(k) ==
    LET number == ToString(k - 1)
        padded == IF k - 1 < 10 THEN "000" \o number
                  ELSE IF k - 1 < 100 THEN "00" \o number ELSE number
    IN  "VTV" \o padded \o ".mp4"

\* a % b of JavaScript for b > 0: the sign of the dividend
JsRem(a, b) == IF a >= 0 THEN a % b ELSE -((-a) % b)

\* secondsToHMS: Math.floor of seconds / 3600, (seconds % 3600) / 60, seconds % 60
secondsToHMS(seconds) ==
    [h |-> seconds \div 3600, m |-> JsRem(seconds, 3600) \div 60,
     s |-> JsRem(seconds, 60)]

hmsToSeconds(h, m, s) == h * 3600 + m * 60 + s

\* parseInt(e.target.value) || fallback : NaN and 0 are falsy
ParseIntOr(cell, fallback) ==
    IF cell.kind = "number" /\ cell.n # 0 THEN cell.n ELSE fallback

\* generateFilename(label, index) with startIndex 0
generateFilename(index) == FilenameOf(index + 1)

\* Timeline shows its controls once a video has a duration; the confirm
\* dialog is modal
TimelineShown == tool.videoFile.present /\ ~tool.showConfirmDialog

\* times further than MaxSeconds from 0 are not explored
InWindow(t) == -MaxSeconds <= t /\ t <= MaxSeconds

\* handleStartTimeChange: the start slider, max = min(duration, end - 0.1)
HandleStartTimeChange(value) ==
    /\ TimelineShown
    /\ 0 <= value
    /\ value <= Min(VideoDuration, tool.timeRange.end - 1)
    /\ tool' = IF value < tool.timeRange.end
               THEN [tool EXCEPT !.timeRange.start = value]
               ELSE tool
    /\ UNCHANGED <<annotations, resolutionInfo, driveFolderId, token, isLoaded,
                   engine, fs, pa, execLog, ui, batch, progressLog, toasts,
                   uploadLog, delivered, direct, mapIn, mapOut, excel>>

\* handleEndTimeChange: the end slider, min = max(0, start + 1), max = duration
HandleEndTimeChange(value) ==
    /\ TimelineShown
    /\ Max(0, tool.timeRange.start + 1) <= value
    /\ value <= VideoDuration
    /\ tool' = IF value > tool.timeRange.start
               THEN [tool EXCEPT !.timeRange.end = value]
               ELSE tool
    /\ UNCHANGED <<annotations, resolutionInfo, driveFolderId, token, isLoaded,
                   engine, fs, pa, execLog, ui, batch, progressLog, toasts,
                   uploadLog, delivered, direct, mapIn, mapOut, excel>>

\* onChange of the start hours field: newTime < timeRange.end - 0.1
StartHoursChange(cell) ==
    /\ TimelineShown
    /\ LET hms == secondsToHMS(tool.timeRange.start)
           v == ParseIntOr(cell, 0)
           newTime == hmsToSeconds(v, hms.m, hms.s)
       IN  /\ InWindow(newTime)
           /\ tool' = IF newTime < tool.timeRange.end
                      THEN [tool EXCEPT !.timeRange.start = newTime]
                      ELSE tool
    /\ UNCHANGED <<annotations, resolutionInfo, driveFolderId, token, isLoaded,
                   engine, fs, pa, execLog, ui, batch, progressLog, toasts,
                   uploadLog, delivered, direct, mapIn, mapOut, excel>>

\* onChange of the start minutes field: newTime < timeRange.end - 1
StartMinutesChange(cell) ==
    /\ TimelineShown
    /\ LET hms == secondsToHMS(tool.timeRange.start)
           v == ParseIntOr(cell, 0)
           newTime == hmsToSeconds(hms.h, v, hms.s)
       IN  /\ InWindow(newTime)
           /\ tool' = IF newTime < tool.timeRange.end - 1
                      THEN [tool EXCEPT !.timeRange.start = newTime]
                      ELSE tool
    /\ UNCHANGED <<annotations, resolutionInfo, driveFolderId, token, isLoaded,
                   engine, fs, pa, execLog, ui, batch, progressLog, toasts,
                   uploadLog, delivered, direct, mapIn, mapOut, excel>>

\* onChange of the start seconds field: newTime < timeRange.end - 0.1
StartSecondsChange(cell) ==
    /\ TimelineShown
    /\ LET hms == secondsToHMS(tool.timeRange.start)
           v == ParseIntOr(cell, 0)
           newTime == hmsToSeconds(hms.h, hms.m, v)
       IN  /\ InWindow(newTime)
           /\ tool' = IF newTime < tool.timeRange.end
                      THEN [tool EXCEPT !.timeRange.start = newTime]
                      ELSE tool
    /\ UNCHANGED <<annotations, resolutionInfo, driveFolderId, token, isLoaded,
                   engine, fs, pa, execLog, ui, batch, progressLog, toasts,
                   uploadLog, delivered, direct, mapIn, mapOut, excel>>

\* onChange of the end hours field: newTime > timeRange.start + 0.1
EndHoursChange(cell) ==
    /\ TimelineShown
    /\ LET hms == secondsToHMS(tool.timeRange.end)
           v == ParseIntOr(cell, 0)
           newTime == hmsToSeconds(v, hms.m, hms.s)
       IN  /\ InWindow(newTime)
           /\ tool' = IF newTime > tool.timeRange.start
                      THEN [tool EXCEPT !.timeRange.end = newTime]
                      ELSE tool
    /\ UNCHANGED <<annotations, resolutionInfo, driveFolderId, token, isLoaded,
                   engine, fs, pa, execLog, ui, batch, progressLog, toasts,
                   uploadLog, delivered, direct, mapIn, mapOut, excel>>

\* onChange of the end minutes field: newTime > timeRange.start + 0.1
EndMinutesChange(cell) ==
    /\ TimelineShown
    /\ LET hms == secondsToHMS(tool.timeRange.end)
           v == ParseIntOr(cell, 0)
           newTime == hmsToSeconds(hms.h, v, hms.s)
       IN  /\ InWindow(newTime)
           /\ tool' = IF newTime > tool.timeRange.start
                      THEN [tool EXCEPT !.timeRange.end = newTime]
                      ELSE tool
    /\ UNCHANGED <<annotations, resolutionInfo, driveFolderId, token, isLoaded,
                   engine, fs, pa, execLog, ui, batch, progressLog, toasts,
                   uploadLog, delivered, direct, mapIn, mapOut, excel>>

\* onChange of the end seconds field: newTime > timeRange.start + 0.1
EndSecondsChange(cell) ==
    /\ TimelineShown
    /\ LET hms == secondsToHMS(tool.timeRange.end)
           v == ParseIntOr(cell, 0)
           newTime == hmsToSeconds(hms.h, hms.m, v)
       IN  /\ InWindow(newTime)
           /\ tool' = IF newTime > tool.timeRange.start
                      THEN [tool EXCEPT !.timeRange.end = newTime]
                      ELSE tool
    /\ UNCHANGED <<annotations, resolutionInfo, driveFolderId, token, isLoaded,
                   engine, fs, pa, execLog, ui, batch, progressLog, toasts,
                   uploadLog, delivered, direct, mapIn, mapOut, excel>>

\* onLabelChange={setCurrentLabel}
SetCurrentLabel(label) ==
    /\ ~tool.showConfirmDialog
    /\ tool' = [tool EXCEPT !.currentLabel = label]
    /\ UNCHANGED <<annotations, resolutionInfo, driveFolderId, token, isLoaded,
                   engine, fs, pa, execLog, ui, batch, progressLog, toasts,
                   uploadLog, delivered, direct, mapIn, mapOut, excel>>

\* the annotation built by handleAddAnnotation at time id (Date.now()); crop,
\* postag, sideView and createdAt are carried along and not modelled
NewAnnotation(state, id) ==
    [id |-> id, label |-> state.currentLabel, timeRange |-> state.timeRange,
     filename |-> generateFilename(Len(state.annotations))]

\* prev.map(ann => ann.id === selectedAnnotation ? { ...ann, label, timeRange } : ann)
UpdatedAnnotations(state) ==
    [k \in 1..Len(state.annotations) |->
        IF state.annotations[k].id = state.selectedAnnotation
        THEN [state.annotations[k] EXCEPT !.label = state.currentLabel,
                                          !.timeRange = state.timeRange]
        ELSE state.annotations[k]]

\* handleAddAnnotation: the Add/Update button or Ctrl+Enter
HandleAddAnnotation ==
    /\ ~tool.showConfirmDialog
    /\ IF tool.currentLabel = ""
       THEN tool' = [tool EXCEPT !.toast = "Please enter a label for the annotation"]
       ELSE IF tool.timeRange.start >= tool.timeRange.end
       THEN tool' = [tool EXCEPT !.toast = "Invalid time range"]
       ELSE IF tool.selectedAnnotation # 0
       THEN tool' = [tool EXCEPT !.annotations = UpdatedAnnotations(tool),
                                 !.selectedAnnotation = 0,
                                 !.currentLabel = "",
                                 !.toast = "Annotation updated successfully!"]
       ELSE /\ tool.now < MaxAdds
            /\ tool' = [tool EXCEPT
                          !.annotations = Append(@, NewAnnotation(tool, tool.now + 1)),
                          !.now = @ + 1,
                          !.currentLabel = "",
                          !.toast = "Annotation added successfully!"]
    /\ UNCHANGED <<annotations, resolutionInfo, driveFolderId, token, isLoaded,
                   engine, fs, pa, execLog, ui, batch, progressLog, toasts,
                   uploadLog, delivered, direct, mapIn, mapOut, excel>>

\* handleDeleteAnnotation(id)
HandleDeleteAnnotation(id) ==
    /\ ~tool.showConfirmDialog
    /\ \E k \in DOMAIN tool.annotations : tool.annotations[k].id = id
    /\ tool' = [tool EXCEPT
                  !.annotations = SelectSeq(@, LAMBDA ann : ann.id # id),
                  !.selectedAnnotation = 0,
                  !.toast = "Annotation deleted"]
    /\ UNCHANGED <<annotations, resolutionInfo, driveFolderId, token, isLoaded,
                   engine, fs, pa, execLog, ui, batch, progressLog, toasts,
                   uploadLog, delivered, direct, mapIn, mapOut, excel>>

\* handleSelectAnnotation(annotation)
HandleSelectAnnotation(annotation) ==
    /\ ~tool.showConfirmDialog
    /\ tool' = [tool EXCEPT !.selectedAnnotation = annotation.id,
                            !.timeRange = annotation.timeRange,
                            !.currentLabel = annotation.label,
                            !.toast = "Annotation selected"]
    /\ UNCHANGED <<annotations, resolutionInfo, driveFolderId, token, isLoaded,
                   engine, fs, pa, execLog, ui, batch, progressLog, toasts,
                   uploadLog, delivered, direct, mapIn, mapOut, excel>>

(***************************************************************************)
(* ExcelUploader.parseExcelData                                            *)
(***************************************************************************)
\* a cell of the sheet as XLSX.utils.sheet_to_json delivers it: absent
\* (undefined), a number, or a text that is not a number
Undefined == [kind |-> "undefined", n |-> 0]
Num(n) == [kind |-> "number", n |-> n]
Text == [kind |-> "text", n |-> 0]

\* Number(cell) || fallback : NaN and 0 are falsy
NumberOr(cell, fallback) ==
    IF cell.kind = "number" /\ cell.n # 0 THEN cell.n ELSE fallback

\* the required-fields test: ID_video and Meaning must be truthy, the six
\* numeric columns must not be undefined
MissingRequired(row) ==
    \/ row.idVideo = ""
    \/ row.meaning = ""
    \/ row.start = Undefined
    \/ row.end = Undefined
    \/ row.cropX = Undefined
    \/ row.cropY = Undefined
    \/ row.cropWidth = Undefined
    \/ row.cropHeight = Undefined

\* the Annotation built from a row (id and createdAt left out)
RowAnnotation(row) ==
    [filename |-> row.idVideo, label |-> row.meaning,
     cropArea |-> [x |-> NumberOr(row.cropX, 0), y |-> NumberOr(row.cropY, 0),
                   width |-> NumberOr(row.cropWidth, 100),
                   height |-> NumberOr(row.cropHeight, 100)],
     timeRange |-> [start |-> NumberOr(row.start, 0), end |-> NumberOr(row.end, 1)]]

\* the two validations made on the Annotation that was built
AnnotationInvalid(annotation) ==
    \/ annotation.timeRange.start >= annotation.timeRange.end
    \/ annotation.cropArea.width <= 0
    \/ annotation.cropArea.height <= 0

\* the rows that reach annotations.push
RowKept(row) == ~MissingRequired(row) /\ ~AnnotationInvalid(RowAnnotation(row))

parseExcelData(data) ==
    LET kept == SelectSeq(data, RowKept)
    IN  [k \in DOMAIN kept |-> RowAnnotation(kept[k])]

NoExcel == [rows |-> <<>>, state |-> "none", parsed |-> <<>>]

(***************************************************************************)
(* The export pipeline                                                     *)
(***************************************************************************)
\* time ranges of the annotations handed to the export: a 10 s clip, a clip
\* of exactly one hour, a clip one second longer, and an empty range
\* (start >= end)
TimeRanges ==
    {[start |-> 0, end |-> 10], [start |-> 0, end |-> 3600],
     [start |-> 0, end |-> 3601], [start |-> 5, end |-> 5]}

\* the crop rectangles drawn on the canvas, by position in the list
CropAreaAt(k) ==
    IF k % 2 = 1 THEN [x |-> 10, y |-> 10, width |-> 40, height |-> 30]
                 ELSE [x |-> 30, y |-> 0, width |-> 4, height |-> 24]

\* a 64x48 canvas showing a 128x96 video, the same canvas with the video's
\* size not known, and the state before any metadata is known
\* (VideoAnnotationTool's initial resolutionInfo)
Resolutions ==
    {[videoWidth |-> 128, videoHeight |-> 96, canvasWidth |-> 64, canvasHeight |-> 48],
     [videoWidth |-> 0, videoHeight |-> 0, canvasWidth |-> 64, canvasHeight |-> 48],
     [videoWidth |-> 0, videoHeight |-> 0, canvasWidth |-> 0, canvasHeight |-> 0]}

\* the props driveFolderId and the stored token
Sinks == {<<FALSE, "absent">>, <<TRUE, "absent">>, <<TRUE, "valid">>, <<TRUE, "rejected">>}

AnnotationLists ==
    UNION {[1..n -> TimeRanges] : n \in 1..MaxBatch}

AnnotationList(ranges) ==
    [k \in DOMAIN ranges |->
        [filename |-> FilenameOf(k), timeRange |-> ranges[k], cropArea |-> CropAreaAt(k)]]

NoMapIn == [cropArea |-> NoAnnotation.cropArea, canvas |-> NoResolution,
            video |-> NoResolution]
NoMapOut == [state |-> "none", crop |-> [x |-> 0, y |-> 0, width |-> 0, height |-> 0]]

\* the state after the module is loaded and ExportManager is mounted
Idle ==
    /\ isLoaded = FALSE
    /\ engine = [loaded |-> FALSE, loading |-> 0, loads |-> 0, listeners |-> 0]
    /\ fs = [f \in FileNames |-> "none"]
    /\ pa = [c \in Callers |-> IdleCall]
    /\ execLog = [c \in Callers |-> <<>>]
    /\ ui = [pc |-> "idle", runs |-> 0, isExporting |-> FALSE,
             exportProgress |-> Rat(0), j |-> 0, results |-> <<>>, error |-> <<>>]
    /\ batch = [i |-> 0, results |-> <<>>, input |-> <<>>]
    /\ progressLog = <<>>
    /\ toasts = <<>>
    /\ uploadLog = <<>>
    /\ delivered = <<>>
    /\ direct = [calls |-> 0, pc |-> "idle", op |-> "none"]

Init ==
    /\ \E ranges \in AnnotationLists : annotations = AnnotationList(ranges)
    /\ resolutionInfo \in Resolutions
    /\ \E sink \in Sinks : driveFolderId = sink[1] /\ token = sink[2]
    /\ Idle
    /\ mapIn = NoMapIn
    /\ mapOut = NoMapOut
    /\ tool = NoTool
    /\ excel = NoExcel

\* a settled engine call of caller c is followed up
EngineStep(c) ==
    \/ LoadDone(c)
    \/ WriteDone(c)
    \/ ExecDone(c)
    \/ ListDone(c)
    \/ ReadDone(c)
    \/ DeleteInputDone(c)
    \/ DeleteOutputDone(c)

\* the application as shipped: ExportManager is the singleton's only client
Next ==
    \/ ExportAll
    \/ ItemDone
    \/ ItemFailed
    \/ BatchDone
    \/ DownloadNext
    \/ UploadDone
    \/ EngineStep("ui")

Spec == Init /\ [][Next]_vars

\* the exported singleton shared with a second client (local delivery only)
InitClients ==
    /\ \E ranges \in AnnotationLists :
          /\ \A k \in DOMAIN ranges : ranges[k] = [start |-> 0, end |-> 10]
          /\ annotations = AnnotationList(ranges)
    /\ resolutionInfo \in {r \in Resolutions : r.canvasWidth # 0 /\ r.videoWidth # 0}
    /\ driveFolderId = FALSE
    /\ token = "absent"
    /\ Idle
    /\ mapIn = NoMapIn
    /\ mapOut = NoMapOut
    /\ tool = NoTool
    /\ excel = NoExcel

NextClients ==
    \/ ExportAll
    \/ ItemDone
    \/ ItemFailed
    \/ BatchDone
    \/ DownloadNext
    \/ DirectProcess
    \/ DirectLoad
    \/ DirectReturn
    \/ DirectTerminate
    \/ DirectTerminateDone
    \/ \E c \in Callers : EngineStep(c)

SpecClients == InitClients /\ [][NextClients]_vars

\* the engine's worker dies (the wasm runtime aborts, e.g. out of memory):
\* its storage is gone and every call to the FFmpeg object rejects from now
\* on; nothing in VideoProcessor is notified
EngineCrash ==
    /\ engine.loaded
    /\ engine' = [engine EXCEPT !.loaded = FALSE]
    /\ fs' = [f \in FileNames |-> "none"]
    /\ UNCHANGED <<annotations, resolutionInfo, driveFolderId, token, isLoaded,
                   pa, execLog, ui, batch, progressLog, toasts, uploadLog,
                   delivered, direct, mapIn, mapOut, tool, excel>>

\* the application with an engine that can die (local delivery only)
InitCrash ==
    /\ \E ranges \in AnnotationLists : annotations = AnnotationList(ranges)
    /\ resolutionInfo \in Resolutions
    /\ driveFolderId = FALSE
    /\ token = "absent"
    /\ Idle
    /\ mapIn = NoMapIn
    /\ mapOut = NoMapOut
    /\ tool = NoTool
    /\ excel = NoExcel

NextCrash ==
    \/ ExportAll
    \/ ItemDone
    \/ ItemFailed
    \/ BatchDone
    \/ DownloadNext
    \/ EngineStep("ui")
    \/ EngineCrash

SpecCrash == InitCrash /\ [][NextCrash]_vars

(***************************************************************************)
(* The crop mapping of processAnnotation on its own                        *)
(***************************************************************************)
MapXs == {0, 50, 51, 300, 620, 639}
MapYs == {0, 50, 340}
MapWidths == {1, 20, 300, 333}
MapHeights == {10, 200}

\* <<canvas, video>>; the scale factors 3, 2, 1, 5/4 and 1/2 are exact in
\* binary floating point, so the rational arithmetic is the code's arithmetic
MapResolutions ==
    {<<[width |-> 640, height |-> 360], [width |-> 1920, height |-> 1080]>>,
     <<[width |-> 640, height |-> 360], [width |-> 1280, height |-> 1080]>>,
     <<[width |-> 640, height |-> 360], [width |-> 1280, height |-> 720]>>,
     <<[width |-> 640, height |-> 360], [width |-> 640, height |-> 360]>>,
     <<[width |-> 640, height |-> 360], [width |-> 800, height |-> 450]>>,
     <<[width |-> 640, height |-> 360], [width |-> 320, height |-> 180]>>,
     <<[width |-> 0, height |-> 100], [width |-> 640, height |-> 360]>>,
     <<[width |-> 640, height |-> 0], [width |-> 640, height |-> 360]>>,
     <<[width |-> 333, height |-> 201], [width |-> 333, height |-> 201]>>}

\* crop rectangles with positive sides, anywhere on a 640x360 canvas
MapInputs ==
    {[cropArea |-> [x |-> Rat(x), y |-> Rat(y), width |-> Rat(w), height |-> Rat(h)],
      canvas |-> r[1], video |-> r[2]] :
        x \in MapXs, y \in MapYs, w \in MapWidths, h \in MapHeights, r \in MapResolutions}

InitMap ==
    /\ annotations = <<>>
    /\ resolutionInfo \in {r \in Resolutions : r.canvasWidth = 0}
    /\ driveFolderId = FALSE
    /\ token = "absent"
    /\ Idle
    /\ mapIn \in {m \in MapInputs :
                    \/ m.canvas.width = 0
                    \/ m.canvas.height = 0
                    \/ /\ m.cropArea.x[1] + m.cropArea.width[1] <= m.canvas.width
                       /\ m.cropArea.y[1] + m.cropArea.height[1] <= m.canvas.height}
    /\ mapOut = NoMapOut
    /\ tool = NoTool
    /\ excel = NoExcel

\* throw new Error('Missing resolution info')
MapRejected ==
    /\ mapOut.state = "none"
    /\ ResolutionMissing(mapIn.canvas, mapIn.video)
    /\ mapOut' = [mapOut EXCEPT !.state = "Missing resolution info"]
    /\ UNCHANGED <<annotations, resolutionInfo, driveFolderId, token, isLoaded,
                   engine, fs, pa, execLog, ui, batch, progressLog, toasts,
                   uploadLog, delivered, direct, mapIn, tool, excel>>

\* the rectangle placed in the -filter:v argument
MapAccepted ==
    /\ mapOut.state = "none"
    /\ ~ResolutionMissing(mapIn.canvas, mapIn.video)
    /\ mapOut' = [state |-> "mapped",
                  crop |-> CropMapping(mapIn.cropArea, mapIn.canvas, mapIn.video)]
    /\ UNCHANGED <<annotations, resolutionInfo, driveFolderId, token, isLoaded,
                   engine, fs, pa, execLog, ui, batch, progressLog, toasts,
                   uploadLog, delivered, direct, mapIn, tool, excel>>

NextMap == MapRejected \/ MapAccepted

SpecMap == InitMap /\ [][NextMap]_vars

(***************************************************************************)
(* Choosing the video file, on its own                                     *)
(***************************************************************************)
FileTypes ==
    {<<"v", "i", "d", "e", "o", "/", "m", "p", "4">>,
     <<"v", "i", "d", "e", "o", "/">>,
     <<"v", "i", "d", "e", "o">>,
     <<"i", "m", "a", "g", "e", "/", "p", "n", "g">>,
     <<>>}

FileSizes == {1024, MaxFileSize, MaxFileSize + 1, 2 * MaxFileSize}

FileNamesChosen == {"a.mp4", "b.mp4"}

SelectedFiles ==
    {[present |-> TRUE, name |-> n, type |-> t, size |-> z] :
        n \in FileNamesChosen, t \in FileTypes, z \in FileSizes}

\* a video loaded earlier
LoadedFile ==
    [present |-> TRUE, name |-> "first.mp4",
     type |-> <<"v", "i", "d", "e", "o", "/", "m", "p", "4">>, size |-> 1024]

\* the tool at mount, after a first video was loaded, and after an
\* annotation was added to it
InitTool ==
    /\ annotations = <<>>
    /\ resolutionInfo \in {r \in Resolutions : r.canvasWidth = 0}
    /\ driveFolderId = FALSE
    /\ token = "absent"
    /\ Idle
    /\ mapIn = NoMapIn
    /\ mapOut = NoMapOut
    /\ tool \in {NoTool,
                 [NoTool EXCEPT !.videoFile = LoadedFile,
                                !.videoUrl = ObjectUrl(LoadedFile)],
                 [NoTool EXCEPT !.videoFile = LoadedFile,
                                !.videoUrl = ObjectUrl(LoadedFile),
                                !.annotations =
                                    AnnotationList(<<[start |-> 0, end |-> 10]>>)]}
    /\ excel = NoExcel

NextTool ==
    \/ \E file \in SelectedFiles \cup {NoFile} : HandleFileUpload(file)
    \/ HandleConfirmNewVideo
    \/ HandleCancelNewVideo
    \/ DismissConfirmDialog

SpecTool == InitTool /\ [][NextTool]_vars

\* the values the sliders are moved to and the H:M:S fields are given
SliderValues == {3}
TypedCells == {Num(-1), Text}

\* another video, chosen while the first one is being annotated
OtherFile ==
    [present |-> TRUE, name |-> "second.mp4",
     type |-> <<"v", "i", "d", "e", "o", "/", "m", "p", "4">>, size |-> 1024]

\* the tool with a first video loaded and nothing annotated yet
InitEdit ==
    /\ annotations = <<>>
    /\ resolutionInfo \in {r \in Resolutions : r.canvasWidth = 0}
    /\ driveFolderId = FALSE
    /\ token = "absent"
    /\ Idle
    /\ mapIn = NoMapIn
    /\ mapOut = NoMapOut
    /\ tool = [NoTool EXCEPT !.videoFile = LoadedFile,
                             !.videoUrl = ObjectUrl(LoadedFile)]
    /\ excel = NoExcel

NextEdit ==
    \/ \E value \in SliderValues : HandleStartTimeChange(value)
    \/ \E value \in SliderValues : HandleEndTimeChange(value)
    \/ \E cell \in TypedCells : StartHoursChange(cell)
    \/ \E cell \in TypedCells : StartMinutesChange(cell)
    \/ \E cell \in TypedCells : StartSecondsChange(cell)
    \/ \E cell \in TypedCells : EndHoursChange(cell)
    \/ \E cell \in TypedCells : EndMinutesChange(cell)
    \/ \E cell \in TypedCells : EndSecondsChange(cell)
    \/ SetCurrentLabel("a")
    \/ HandleAddAnnotation
    \/ \E k \in DOMAIN tool.annotations : HandleDeleteAnnotation(tool.annotations[k].id)
    \/ \E k \in DOMAIN tool.annotations : HandleSelectAnnotation(tool.annotations[k])
    \/ HandleFileUpload(OtherFile)
    \/ HandleConfirmNewVideo
    \/ HandleCancelNewVideo
    \/ DismissConfirmDialog

SpecEdit == InitEdit /\ [][NextEdit]_vars

(***************************************************************************)
(* parseExcelData on its own                                               *)
(***************************************************************************)
MaxRows == 2

\* a complete row
GoodRow ==
    [idVideo |-> "VTV0001.mp4", meaning |-> "hello", start |-> Num(2), end |-> Num(5),
     cropX |-> Num(10), cropY |-> Num(20), cropWidth |-> Num(40), cropHeight |-> Num(30)]

\* the complete row with one or two of its cells changed
SheetRows ==
    {GoodRow}
    \cup {[GoodRow EXCEPT !.idVideo = ""], [GoodRow EXCEPT !.meaning = ""]}
    \cup {[GoodRow EXCEPT !.start = c] : c \in {Undefined, Num(0), Num(5), Num(7)}}
    \cup {[GoodRow EXCEPT !.end = c] : c \in {Undefined, Num(0), Num(2), Num(-1)}}
    \cup {[GoodRow EXCEPT !.start = Num(0), !.end = Num(0)]}
    \cup {[GoodRow EXCEPT !.cropX = c] : c \in {Undefined, Num(0), Text}}
    \cup {[GoodRow EXCEPT !.cropY = Undefined]}
    \cup {[GoodRow EXCEPT !.cropWidth = c] : c \in {Undefined, Num(0), Num(-5), Num(1)}}
    \cup {[GoodRow EXCEPT !.cropHeight = c] : c \in {Undefined, Num(0), Num(-5)}}

Sheets == UNION {[1..n -> SheetRows] : n \in 1..MaxRows}

InitImport ==
    /\ annotations = <<>>
    /\ resolutionInfo \in {r \in Resolutions : r.canvasWidth = 0}
    /\ driveFolderId = FALSE
    /\ token = "absent"
    /\ Idle
    /\ mapIn = NoMapIn
    /\ mapOut = NoMapOut
    /\ tool = NoTool
    /\ \E sheet \in Sheets : excel = [rows |-> sheet, state |-> "read", parsed |-> <<>>]

\* const annotations = parseExcelData(jsonData)
ParseExcelData ==
    /\ excel.state = "read"
    /\ excel' = [excel EXCEPT !.state = "parsed", !.parsed = parseExcelData(excel.rows)]
    /\ UNCHANGED <<annotations, resolutionInfo, driveFolderId, token, isLoaded,
                   engine, fs, pa, execLog, ui, batch, progressLog, toasts,
                   uploadLog, delivered, direct, mapIn, mapOut, tool>>

NextImport == ParseExcelData

SpecImport == InitImport /\ [][NextImport]_vars

(***************************************************************************)
(* Properties                                                              *)
(***************************************************************************)
Range(seq) == {seq[k] : k \in DOMAIN seq}

StorageClean == \A f \in FileNames : fs[f] = "none"

\* the run ended because item batch.i (0-based) of the batch failed
BatchFailed ==
    /\ ui.pc = "done"
    /\ ui.error # <<>>
    /\ batch.i < Len(batch.input)

\* the run ended after the batch had produced every artifact
BatchSucceeded ==
    /\ ui.pc = "done"
    /\ batch.i = Len(batch.input)

\* the awaited processAnnotation of the batch has just thrown
ItemThrew ==
    /\ ui.pc = "batch"
    /\ pa["ui"].pc = "ret"
    /\ pa["ui"].res.kind = "error"

Failures == {r \in Range(uploadLog) : r.outcome \in {"rejected", "error"}}

\* C1 (as claimed): whenever a processAnnotation call has returned or thrown,
\* whatever its step of failure and whatever the engine's delete operations
\* did, working storage holds neither input.mp4 nor output.mp4.
C1_CleanupInvariant ==
    pa["ui"].pc = "ret" => StorageClean

\* a caller has staged its input and has not yet reached its cleanup
Extracting(c) == pa[c].pc \in {"exec", "list", "read"}

\* C2 (as claimed): no two callers of the singleton are between their
\* writeFile('input.mp4') and their cleanup at the same time.
C2_MutualExclusion ==
    \A c, d \in Callers : (Extracting(c) /\ Extracting(d)) => c = d

\* C3: once an item of the batch has failed, the run aborts: the very next
\* step of the run ends it without a new progress callback, exec or change of
\* storage, and outside the batch loop no extraction is in progress, so no
\* later item is ever staged, executed or read.
C3_AbortOnError ==
    /\ [](ui.pc # "batch" => pa["ui"].pc = "idle")
    /\ [][ItemThrew => /\ ui'.pc = "done"
                       /\ pa'["ui"].pc = "idle"
                       /\ progressLog' = progressLog
                       /\ execLog' = execLog
                       /\ fs' = fs
                       /\ batch' = batch]_vars

\* a run aborted at its second item of three: the third was never started
C3_Witness ==
    /\ BatchFailed
    /\ Len(batch.input) = 3
    /\ batch.i = 1
    /\ Len(progressLog) = 2
    /\ Len(execLog["ui"]) = 1

Causes ==
    {"Missing resolution info", "Invalid duration", "Output file was not created",
     "Output file is empty", "engine fault", "load fault"}

C6_ContinueOnError ==
    (driveFolderId /\ token # "absent" /\ ui.results # <<>> /\ ui.pc \in {"upload", "done"}) =>
        LET n == IF ui.pc = "done" THEN Len(ui.results) ELSE ui.j + 1 IN
        /\ Len(uploadLog) = n
        /\ \A k \in 1..n : /\ uploadLog[k].filename = ui.results[k].filename
                           /\ uploadLog[k].blob = ui.results[k].blob
                           /\ (uploadLog[k].outcome = "pending") = (ui.pc = "upload" /\ k = n)

\* three artifacts, the second rejected: the first and third were uploaded
C6_Witness ==
    /\ ui.pc = "done"
    /\ Len(uploadLog) = 3
    /\ uploadLog[1].outcome = "ok"
    /\ uploadLog[2].outcome = "rejected"
    /\ uploadLog[3].outcome = "ok"

\* C7 (as claimed): a run in which some upload failed is never reported as
\* all N artifacts uploaded or exported successfully.
C7_FaithfulReport ==
    (ui.pc = "done" /\ Failures # {}) =>
        /\ UploadedToast(Len(ui.results)) \notin Range(toasts)
        /\ ExportedToast(Len(ui.results)) \notin Range(toasts)

\* C8 (as claimed): with the credential absent or rejected by the remote
\* store, no upload request is issued for any artifact.
C8_NoUploadUnauthenticated ==
    (driveFolderId /\ token \in {"absent", "rejected"}) => uploadLog = <<>>

\* C8 (amended): with no stored credential, remote delivery throws 'Google
\* Drive not connected' before any upload request; a stored credential that
\* the remote store rejects is found out only by the uploads themselves: one
\* request is issued per artifact and every one of them fails.
C8_AbsentShortCircuit ==
    /\ (driveFolderId /\ token = "absent") =>
          /\ uploadLog = <<>>
          /\ BatchSucceeded => ui.error = <<"Google Drive not connected">>
    /\ (driveFolderId /\ token = "rejected" /\ BatchSucceeded) =>
          /\ Len(uploadLog) = Len(ui.results)
          /\ \A k \in DOMAIN uploadLog : uploadLog[k].outcome \in {"rejected", "error"}

\* a run whose batch succeeded without a stored credential
C8_Witness ==
    /\ BatchSucceeded
    /\ driveFolderId
    /\ token = "absent"
    /\ Len(batch.results) = 2
    /\ uploadLog = <<>>

\* C9 (as claimed): ffmpeg.load is never started while an earlier
\* ffmpeg.load is still in flight.
C9_SingleInitialization ==
    engine.loading <= 1

\* C10 (as claimed): the rectangle handed to the crop filter lies inside the
\* video and has sides of at least 32 pixels.
C10_BoundaryContainment ==
    mapOut.state = "mapped" =>
        /\ 0 <= mapOut.crop.x
        /\ 0 <= mapOut.crop.y
        /\ mapOut.crop.x + mapOut.crop.width <= mapIn.video.width
        /\ mapOut.crop.y + mapOut.crop.height <= mapIn.video.height
        /\ mapOut.crop.width >= minSize
        /\ mapOut.crop.height >= minSize

\* C11 (as claimed): x, y, width and height handed to the crop filter are all
\* even, also after the final reduction against the video resolution.
C11_CodecLegal ==
    mapOut.state = "mapped" =>
        /\ mapOut.crop.x % 2 = 0
        /\ mapOut.crop.y % 2 = 0
        /\ mapOut.crop.width % 2 = 0
        /\ mapOut.crop.height % 2 = 0

ZeroSide(resolution) == resolution.width = 0 \/ resolution.height = 0

\* the cause wrapped in the error of a call that threw
CauseOf(call) == IF call.res.kind = "error" THEN call.res.msg[2] ELSE ""

\* C12 (as claimed): when the canvas resolution or the video resolution has a
\* zero side, no ffmpeg.exec is issued, and a call whose input was staged
\* fails with 'Missing resolution info'.
C12_MissingResolutionRejected ==
    (ZeroSide(CanvasOf(resolutionInfo)) \/ ZeroSide(VideoOf(resolutionInfo))) =>
        /\ execLog["ui"] = <<>>
        /\ pa["ui"].pc \notin {"exec", "list", "read"}
        /\ pa["ui"].res.kind = "error" =>
              CauseOf(pa["ui"]) \in {"Missing resolution info", "engine fault", "load fault"}

\* C13: a call never reaches ffmpeg.exec, and never returns a Blob, with a
\* duration end - start that is <= 0 or > 3600; every exec issued carries a
\* duration in 1..3600; and a call whose input was staged and whose
\* resolution was accepted throws 'Invalid duration' exactly when its
\* duration is <= 0 or > 3600.
C13_DurationBound ==
    LET call == pa["ui"]
        duration == call.ann.timeRange.end - call.ann.timeRange.start
        outOfRange == duration <= 0 \/ duration > 3600
    IN  /\ \A k \in DOMAIN execLog["ui"] :
              execLog["ui"][k].t > 0 /\ execLog["ui"][k].t <= 3600
        /\ (call.pc # "idle" /\ outOfRange) =>
              /\ call.pc \notin {"exec", "list", "read"}
              /\ call.res.kind # "blob"
              /\ Len(execLog["ui"]) = batch.i
        /\ (call.res.kind = "error"
              /\ CauseOf(call) \notin {"load fault", "engine fault", "Missing resolution info"}) =>
              ((CauseOf(call) = "Invalid duration") <=> outOfRange)

\* a clip of exactly 3600 s was extracted and the next one, of 3601 s, was
\* refused before any exec
C13_Witness ==
    /\ BatchFailed
    /\ batch.i = 1
    /\ Duration(batch.input[1].timeRange) = 3600
    /\ Duration(batch.input[2].timeRange) = 3601
    /\ ui.error = ProcessingError("Invalid duration")
    /\ Len(execLog["ui"]) = 1
    /\ execLog["ui"][1].t = 3600
    /\ Len(batch.results) = 1

\* C14: a Blob is returned only by a readFile that found output.mp4 present
\* and non-empty, and it holds the bytes read; a listDir that does not list
\* output.mp4 ends the call with 'Output file was not created', a readFile
\* that delivers no bytes ends it with 'Output file is empty' (or with the
\* fault of the engine call itself), and neither returns a Blob.
C14_OutputVerification ==
    /\ [](pa["ui"].res.kind = "blob" => pa["ui"].res.data \notin {"none", "empty"})
    /\ []((pa["ui"].pc = "delIn" /\ CauseOf(pa["ui"]) = "Output file was not created")
              => fs["output.mp4"] = "none")
    /\ []((pa["ui"].pc = "delIn" /\ CauseOf(pa["ui"]) = "Output file is empty")
              => fs["output.mp4"] = "empty")
    /\ [][/\ (pa'["ui"].res.kind = "blob" /\ pa["ui"].res.kind # "blob") =>
                /\ pa["ui"].pc = "read"
                /\ fs["output.mp4"] \notin {"none", "empty"}
                /\ pa'["ui"].res.data = fs["output.mp4"]
          /\ (pa["ui"].pc = "list" /\ pa'["ui"].pc # "list" /\ fs["output.mp4"] = "none") =>
                /\ pa'["ui"].res.kind = "error"
                /\ CauseOf(pa'["ui"]) \in {"Output file was not created", "engine fault"}
          /\ (pa["ui"].pc = "read" /\ pa'["ui"].pc # "read" /\ fs["output.mp4"] = "empty") =>
                /\ pa'["ui"].res.kind = "error"
                /\ CauseOf(pa'["ui"]) \in {"Output file is empty", "engine fault"}]_vars

\* exec resolved leaving an empty output.mp4 and the call threw
C14_Witness ==
    /\ pa["ui"].pc = "delIn"
    /\ CauseOf(pa["ui"]) = "Output file is empty"
    /\ fs["output.mp4"] = "empty"
    /\ Len(execLog["ui"]) = batch.i + 1

\* C15: the batch works on one item at a time, in input order: the call in
\* progress is the one for item batch.i, the results and the exec calls so
\* far are those of the items before it, in order; the next item is started
\* only when the call of the current one has returned after its cleanup, and
\* its result is that item's file name with the Blob that call returned; a
\* batch that succeeds returns exactly one result per annotation, in order.
C15_BatchOrdering ==
    /\ [](ui.pc = "batch" =>
            /\ batch.i < Len(batch.input)
            /\ Len(batch.results) = batch.i
            /\ pa["ui"].pc # "idle"
            /\ pa["ui"].ann = batch.input[batch.i + 1]
            /\ Len(execLog["ui"]) \in {batch.i, batch.i + 1}
            /\ \A k \in DOMAIN batch.results :
                  batch.results[k].filename = batch.input[k].filename
            /\ \A k \in DOMAIN execLog["ui"] :
                  execLog["ui"][k].filename = batch.input[k].filename)
    /\ [](BatchSucceeded =>
            /\ Len(batch.results) = Len(annotations)
            /\ ui.results = batch.results
            /\ \A k \in DOMAIN annotations :
                  batch.results[k].filename = annotations[k].filename)
    /\ [][(ui.pc = "batch" /\ batch' # batch) =>
            /\ pa["ui"].pc = "ret"
            /\ pa["ui"].res.kind = "blob"
            /\ batch'.i = batch.i + 1
            /\ batch'.input = batch.input
            /\ batch'.results =
                  Append(batch.results, [filename |-> batch.input[batch.i + 1].filename,
                                         blob |-> pa["ui"].res.data])]_vars

\* a batch of three that succeeded
C15_Witness ==
    /\ BatchSucceeded
    /\ Len(batch.results) = 3
    /\ Len(execLog["ui"]) = 3
    /\ Len(delivered) = 3

\* p <= q for rationals with positive denominators
RatLeq(p, q) == p[1] * q[2] <= q[1] * p[2]

\* C16: in a batch of N items the k-th callback (k = 1..N) is made before
\* item k-1 starts and reports 100*(k-1)/N percent with index k-1; one more
\* callback reports 100 percent with index N, and only once every item has
\* completed; so the indices increase, the percent never decreases and stays
\* within 0..100, in successful and in aborted runs alike.
C16_ProgressProtocol ==
    LET n == Len(batch.input) IN
    /\ \A k \in DOMAIN progressLog :
          IF k <= n
          THEN progressLog[k] = [progress |-> <<100 * (k - 1), n>>, currentIndex |-> k - 1]
          ELSE /\ k = n + 1
               /\ progressLog[k] = [progress |-> Rat(100), currentIndex |-> n]
               /\ Len(batch.results) = n
    /\ \A j, k \in DOMAIN progressLog :
          j < k => /\ progressLog[j].currentIndex < progressLog[k].currentIndex
                   /\ RatLeq(progressLog[j].progress, progressLog[k].progress)
    /\ \A k \in DOMAIN progressLog :
          /\ RatLeq(Rat(0), progressLog[k].progress)
          /\ RatLeq(progressLog[k].progress, Rat(100))
    /\ ui.pc = "batch" =>
          /\ Len(progressLog) = batch.i + 1
          /\ ui.exportProgress = progressLog[Len(progressLog)].progress
    /\ BatchSucceeded => Len(progressLog) = n + 1
    /\ BatchFailed => Len(progressLog) = batch.i + 1

\* a batch of three that succeeded: 0, 100/3, 200/3 and 100 percent
C16_Witness ==
    /\ BatchSucceeded
    /\ Len(progressLog) = 4
    /\ progressLog[2] = [progress |-> <<100, 3>>, currentIndex |-> 1]
    /\ progressLog[4] = [progress |-> Rat(100), currentIndex |-> 3]

\* the terminate() called by the second client returns in this step
TerminateReturns ==
    /\ direct'.op = "terminate"
    /\ direct'.pc = "idle"
    /\ direct.pc = "terminate" \/ direct'.calls = direct.calls + 1

\* C17 (as claimed): whatever the state terminate() is called in, when it
\* returns the engine is released: it is not loaded, no load is in flight and
\* isLoaded is false; and a terminate() on a processor that is not loaded
\* performs no call on the engine.
C17_ShutdownFromAnyState ==
    [][/\ TerminateReturns =>
            /\ ~isLoaded'
            /\ ~engine'.loaded
            /\ engine'.loading = 0
       /\ (direct'.op = "terminate" /\ direct'.calls = direct.calls + 1 /\ ~isLoaded) =>
            /\ engine' = engine
            /\ fs' = fs]_vars

\* C18: no step of an export run changes the caller's annotation list or
\* any field of its annotations; the batch works on a derived copy whose crop
\* is scaled.
C18_AnnotationImmutability ==
    /\ [][annotations' = annotations]_vars
    /\ [](ui.pc # "idle" => batch.input = ScaledAnnotations(annotations, resolutionInfo))

\* a second run has ended on an error; the caller's crop is still the one
\* drawn on the canvas while the batch worked on the scaled one
C18_Witness ==
    /\ BatchFailed
    /\ ui.runs = 2
    /\ annotations[1].cropArea = CropAreaAt(1)
    /\ batch.input[1].cropArea.x = <<1280, 64>>

\* the gate as the claim words it
IsVideoType(type) ==
    Len(type) >= 6 /\ SubSeq(type, 1, 6) = <<"v", "i", "d", "e", "o", "/">>

\* C19: the video held by the tool, and the one waiting for confirmation,
\* always have a MIME type starting with 'video/' and at most 500 MB; choosing
\* a file of another type or of more than 500 MB leaves videoFile, videoUrl,
\* annotations and the pending file as they were; a video file of at most
\* 500 MB (exactly 500 MB included) becomes the videoFile, or the pending
\* file when annotations exist, unless creating its object URL fails.
C19_InputGate ==
    /\ [](\A f \in {tool.videoFile, tool.pendingFile} :
              f.present => IsVideoType(f.type) /\ f.size <= 500 * 1024 * 1024)
    /\ [][(~tool.showConfirmDialog /\ tool' # tool /\ tool'.selected.present) =>
            LET file == tool'.selected IN
            IF ~IsVideoType(file.type) \/ file.size > 500 * 1024 * 1024
            THEN /\ tool'.videoFile = tool.videoFile
                 /\ tool'.videoUrl = tool.videoUrl
                 /\ tool'.annotations = tool.annotations
                 /\ tool'.pendingFile = tool.pendingFile
                 /\ tool'.showConfirmDialog = tool.showConfirmDialog
                 /\ tool'.toast \in {"Please select a valid video file", "File too large"}
            ELSE \/ tool'.videoFile = file /\ tool'.annotations = <<>>
                 \/ tool'.pendingFile = file /\ tool'.showConfirmDialog
                                             /\ tool.annotations # <<>>
                 \/ tool'.toast = "Failed to load video"]_vars

\* a video of exactly 500 MB was loaded, and a file of 500 MB + 1 byte chosen
\* after it was refused
C19_Witness ==
    /\ tool.videoFile.present
    /\ tool.videoFile.size = 500 * 1024 * 1024
    /\ tool.selected.size = 500 * 1024 * 1024 + 1
    /\ IsVideoType(tool.selected.type)
    /\ tool.toast = "File too large"

\* a row the claim lets through: every required field present, start before
\* end, crop width and height positive, all by the row's own values
RowValid(row) ==
    /\ row.idVideo # "" /\ row.meaning # ""
    /\ \A cell \in {row.start, row.end, row.cropX, row.cropY, row.cropWidth,
                    row.cropHeight} : cell.kind # "undefined"
    /\ row.start.n < row.end.n
    /\ row.cropWidth.n > 0
    /\ row.cropHeight.n > 0

\* C20 (as claimed): parseExcelData returns one annotation for every row that
\* has all required fields, start < end and positive crop width and height,
\* in order, carrying the row's own times and crop size, and none for the
\* other rows.
C20_ImportValidation ==
    excel.state = "parsed" =>
        LET valid == SelectSeq(excel.rows, RowValid) IN
        /\ Len(excel.parsed) = Len(valid)
        /\ \A k \in DOMAIN excel.parsed :
              /\ k <= Len(valid)
              /\ excel.parsed[k].filename = valid[k].idVideo
              /\ excel.parsed[k].timeRange = [start |-> valid[k].start.n, end |-> valid[k].end.n]
              /\ excel.parsed[k].cropArea.width = valid[k].cropWidth.n
              /\ excel.parsed[k].cropArea.height = valid[k].cropHeight.n

(***************************************************************************)
(* C21                                                                     *)
(***************************************************************************)
\* C21: while the processor is loaded (isLoaded), no call of load() or of
\* processAnnotation() issues ffmpeg.load or registers an event listener, and
\* no load is left in flight by a call made on the loaded processor: across
\* any number of batches on a loaded engine the subsystem is initialised once.
C21_LoadIdempotent ==
    [][isLoaded => /\ engine'.loads = engine.loads
                   /\ engine'.listeners = engine.listeners
                   /\ engine'.loading <= engine.loading]_vars

\* two export runs and a direct load() call, all served by one initialisation
C21_Witness ==
    /\ isLoaded
    /\ ui.runs = 2 /\ ui.pc = "done" /\ BatchSucceeded
    /\ direct.op = "load" /\ direct.pc = "idle" /\ direct.calls = 1
    /\ engine.loads = 1 /\ engine.listeners = 2

(***************************************************************************)
(* C22                                                                     *)
(***************************************************************************)
\* the last ffmpeg.load of the export client was rejected and nothing has been
\* loaded since (no other client and no terminate() in this specification)
LoadFailed == ~isLoaded /\ engine.loads >= 1 /\ engine.loading = 0

\* an export run starts in this step: processAnnotation is entered for item 0
CallEntered == ui'.runs = ui.runs + 1

\* C22 as stated: after a load failure neither a new load nor an extraction is
\* started (no shutdown is ever requested in this specification)
C22_FailedSticky ==
    [][LoadFailed => engine'.loads = engine.loads /\ execLog' = execLog]_vars

\* C22 amended: a rejected ffmpeg.load leaves isLoaded false and is thrown as
\* 'FFmpeg initialization failed: <cause>'; nothing is remembered of the
\* failure, and the next processAnnotation call issues ffmpeg.load again.
C22_FailedRetried ==
    /\ [](pa["ui"].res = Thrown(InitError("load fault")) => ~isLoaded)
    /\ [][LoadFailed /\ CallEntered
             => pa'["ui"].pc = "load" /\ engine'.loads = engine.loads + 1]_vars

\* the first run failed in ffmpeg.load; the second run, with no shutdown in
\* between, loaded the engine and produced every clip
C22_Witness ==
    /\ ui.runs = 2 /\ BatchSucceeded
    /\ isLoaded /\ engine.loads = 2
    /\ Len(execLog["ui"]) = Len(annotations)

(***************************************************************************)
(* C23                                                                     *)
(***************************************************************************)
\* position of an engine operation in the lifecycle of one call
OpRank(pc) ==
    CASE pc = "idle" -> 0 [] pc = "load" -> 1 [] pc = "write" -> 2
      [] pc = "exec" -> 3 [] pc = "list" -> 4 [] pc = "read" -> 5
      [] pc = "delIn" -> 6 [] pc = "delOut" -> 7 [] pc = "ret" -> 8

\* the step enters a new processAnnotation call of the export client
NewCall == ui'.pc = "batch" /\ (batch'.i # batch.i \/ ui'.runs # ui.runs)

\* C23: within one processAnnotation call the engine operations are issued in
\* the order load (if needed), writeFile, exec, listDir, readFile, deleteFile:
\* exec is issued only right after writeFile staged the input and both
\* validations passed, readFile only right after listDir found output.mp4,
\* nothing but the second deleteFile follows the first, and no exec is issued
\* by any other step.
C23_LifecycleOrder ==
    [][LET old == pa["ui"]
           new == pa'["ui"]
       IN  /\ new.pc # old.pc =>
                IF NewCall
                THEN old.pc \in {"idle", "ret"} /\ new.pc \in {"load", "write"}
                ELSE /\ new.pc # "idle" => OpRank(new.pc) > OpRank(old.pc)
                     /\ new.pc = "idle" => old.pc = "ret"
                     /\ new.pc = "write" => old.pc = "load" /\ isLoaded'
                     /\ new.pc = "exec" =>
                            /\ old.pc = "write"
                            /\ fs'["input.mp4"] = "data"
                            /\ ~ResolutionMissing(old.canvas, old.video)
                            /\ ~DurationInvalid(Duration(old.ann.timeRange))
                     /\ new.pc = "list" => old.pc = "exec"
                     /\ new.pc = "read" =>
                            old.pc = "list" /\ fs["output.mp4"] # "none"
                     /\ old.pc = "delIn" => new.pc \in {"delOut", "ret"}
                     /\ old.pc = "delOut" => new.pc = "ret"
           /\ execLog'["ui"] # execLog["ui"] =>
                \/ new.pc = "exec" /\ old.pc = "write"
                \/ NewCall /\ execLog'["ui"] = <<>>]_vars

\* a call that loaded the engine and went through every operation returns its clip
C23_Witness ==
    /\ pa["ui"].pc = "ret"
    /\ pa["ui"].res.kind = "blob"
    /\ engine.loads = 1 /\ ui.runs = 1 /\ batch.i = 0
    /\ Len(execLog["ui"]) = 1
    /\ StorageClean

(***************************************************************************)
(* C24                                                                     *)
(***************************************************************************)
\* C24: in a run of processMultipleAnnotations ffmpeg.load is issued at most
\* once, in the step that enters item 0; while a later item is in progress the
\* processor is loaded and no load is in flight.
C24_ReadyOncePerBatch ==
    /\ [](ui.pc = "batch" /\ batch.i > 0 => isLoaded /\ engine.loading = 0)
    /\ [][engine'.loads # engine.loads
            => /\ ui'.runs = ui.runs + 1
               /\ batch'.i = 0
               /\ engine'.loads = engine.loads + 1]_vars

\* a batch of several items was produced by the one load started at item 0
C24_Witness ==
    /\ BatchSucceeded
    /\ Len(batch.input) >= 2
    /\ ui.runs = 1
    /\ engine.loads = 1

(***************************************************************************)
(* C25                                                                     *)
(***************************************************************************)
ValidationCauses ==
    {"Missing resolution info", "Invalid duration", "Output file was not created",
     "Output file is empty"}

\* C25 (as claimed): in the step that ends a processAnnotation call, the
\* processor is left ready (isLoaded) after a validation or output failure on
\* a working engine, and it is left not ready if the engine is no longer usable.
C25_ReadyOrFailed ==
    [][(pa["ui"].pc # "ret" /\ pa'["ui"].pc = "ret") =>
          /\ (CauseOf(pa'["ui"]) \in ValidationCauses /\ engine'.loaded) => isLoaded'
          /\ ~engine'.loaded => ~isLoaded']_vars

(***************************************************************************)
(* C26                                                                     *)
(***************************************************************************)
\* the display-space crop of the caller's annotation, as exact numbers
DisplayCrop(annotation) ==
    [x |-> Rat(annotation.cropArea.x), y |-> Rat(annotation.cropArea.y),
     width |-> Rat(annotation.cropArea.width),
     height |-> Rat(annotation.cropArea.height)]

\* C26 (as claimed): the crop of every ffmpeg.exec issued by an export run is
\* the mapping applied once to the display-space cropArea of the annotation
\* the clip is made for.
C26_SingleMapping ==
    \A k \in DOMAIN execLog["ui"] :
        \A a \in DOMAIN annotations :
            annotations[a].filename = execLog["ui"][k].filename =>
                execLog["ui"][k].crop =
                    CropMapping(DisplayCrop(annotations[a]),
                                CanvasOf(resolutionInfo), VideoOf(resolutionInfo))

(***************************************************************************)
(* C27                                                                     *)
(***************************************************************************)
\* e is an even integer no further from the rational q than any other
NearestEven(q, e) ==
    /\ e % 2 = 0
    /\ q[1] - e * q[2] <= q[2]
    /\ e * q[2] - q[1] <= q[2]

\* neither the minimum size nor the video's border touches a side scaled to q
\* that starts at origin
Unclamped(q, origin, limit) ==
    \A e \in 0..(q[1] \div q[2] + 2) :
        NearestEven(q, e) => e >= minSize /\ origin + e <= limit

\* the example of the claim
C27_Example ==
    [cropArea |-> [x |-> Rat(50), y |-> Rat(50), width |-> Rat(300), height |-> Rat(200)],
     canvas |-> [width |-> 640, height |-> 360],
     video |-> [width |-> 1920, height |-> 1080]]

\* C27: x and y of the mapped crop are the even integers nearest to the
\* precisely scaled values, each with its own axis' factor; so are width and
\* height when neither the minimum size nor the border applies; the crop
\* {50, 50, 300, 200} on a 640x360 canvas of a 1920x1080 video maps to
\* {150, 150, 900, 600}.
C27_NearestEven ==
    mapOut.state = "mapped" =>
        LET scaleX(q) == RatScale(q, mapIn.video.width, mapIn.canvas.width)
            scaleY(q) == RatScale(q, mapIn.video.height, mapIn.canvas.height)
        IN  /\ NearestEven(scaleX(mapIn.cropArea.x), mapOut.crop.x)
            /\ NearestEven(scaleY(mapIn.cropArea.y), mapOut.crop.y)
            /\ Unclamped(scaleX(mapIn.cropArea.width), mapOut.crop.x, mapIn.video.width)
                  => NearestEven(scaleX(mapIn.cropArea.width), mapOut.crop.width)
            /\ Unclamped(scaleY(mapIn.cropArea.height), mapOut.crop.y, mapIn.video.height)
                  => NearestEven(scaleY(mapIn.cropArea.height), mapOut.crop.height)
            /\ mapIn = C27_Example
                  => mapOut.crop = [x |-> 150, y |-> 150, width |-> 900, height |-> 600]

\* the example has been mapped
C27_Witness ==
    /\ mapOut.state = "mapped"
    /\ mapIn = C27_Example
    /\ mapOut.crop = [x |-> 150, y |-> 150, width |-> 900, height |-> 600]

(***************************************************************************)
(* C28                                                                     *)
(***************************************************************************)
TimeRangeOk(range) == 0 <= range.start /\ range.start < range.end

\* C28 (as claimed): after any sequence of slider moves, H:M:S edits,
\* selections, additions, updates and video loads, the current time range and
\* the time range of every annotation satisfy 0 <= start < end.
C28_TimeRangeInvariant ==
    /\ TimeRangeOk(tool.timeRange)
    /\ \A k \in DOMAIN tool.annotations : TimeRangeOk(tool.annotations[k].timeRange)

(***************************************************************************)
(* C29                                                                     *)
(***************************************************************************)
\* C29 (as claimed): after any sequence of additions, updates and deletions
\* no two annotations of the list have the same filename.
C29_UniqueFilenames ==
    \A i, j \in DOMAIN tool.annotations :
        i # j => tool.annotations[i].filename # tool.annotations[j].filename

(***************************************************************************)
(* C30                                                                     *)
(***************************************************************************)
\* the toast exportAll shows for a completed export is among those of the run
SuccessReported ==
    Toast(<<"Export completed successfully!">>, <<>>) \in Range(toasts)

\* C30 (as claimed): 'Export completed successfully!' is shown only in a run
\* in which processVideos caught no error and every annotation's clip was
\* produced and passed on for delivery; a run that has ended has reset the
\* exporting flag.
C30_TruthfulSummary ==
    /\ ui.pc = "done" => ~ui.isExporting
    /\ SuccessReported =>
          /\ ui.error = <<>>
          /\ BatchSucceeded
          /\ Len(ui.results) = Len(annotations)

====
